---- MODULE Spec2Model ----
(***************************************************************************)
(* thx/core.py: job resolution (resolve_jobs), the per-context executor    *)
(* (run_jobs_on_context), the cross-context orchestrator (run_jobs) and    *)
(* the run driver (run).                                                   *)
(*                                                                         *)
(* A Job is identified by its name (the key of config.jobs); lists of jobs *)
(* are sequences of names and a job's attributes are read from the config. *)
(* A Context is identified by its index in the sequence resolve_contexts   *)
(* returned.                                                               *)
(***************************************************************************)
EXTENDS Naturals, Sequences, FiniteSets

VARIABLES
    config,            \* options.config: [jobs: name -> Job, default: Seq(name)]
    job_names,         \* options.jobs / job_names of run (the same list object)
    contexts,          \* the sequence returned by resolve_contexts
    pc,                \* position of the run
    error,             \* the exception that ended the run, or "none"
    jobs,              \* the list returned by resolve_jobs
    run_contexts,      \* `contexts` inside run_jobs (after trimming)
    prepare_calls,     \* arguments of the calls of prepare_contexts, in order
    prepare_job_calls, \* <<job, context>> of the calls of prepare_job, in order
    active_jobs,       \* run_jobs: active_jobs
    finished_jobs,     \* run_jobs: finished_jobs
    ci,                \* index of the context of the current pass
    ji,                \* run_jobs_on_context: index of the current job in the list
    si,                \* run_jobs_on_context: index of the current step of the job
    events,            \* the events yielded by run_jobs, in emission order
    printed,           \* run: the events given to print, in order
    results            \* run: results

vars == <<config, job_names, contexts, pc, error, jobs, run_contexts,
          prepare_calls, prepare_job_calls, active_jobs, finished_jobs,
          ci, ji, si, events, printed, results>>

(***************************************************************************)
(* Bounds of the model.                                                    *)
(***************************************************************************)
\* names a configuration may mention; config.jobs defines a subset of them
JobNames == {"a", "b", "c"}
\* longest list of requested names in the resolver specification
MaxNames == 2
\* longest requires list of a job in the resolver specification
MaxRequires == 2
\* most steps prepare_job returns for a job
MaxSteps == 2
\* most contexts resolve_contexts returns
MaxContexts == 2
\* depth of nested resolve_jobs calls at which the interpreter raises
\* RecursionError; larger than any acyclic chain over JobNames
RecursionLimit == 4

SeqsUpTo(S, n) == UNION {[1..k -> S] : k \in 0..n}

\* the sequences of SeqsUpTo(S, n) that name no element twice
DistinctSeqsUpTo(S, n) ==
    {s \in SeqsUpTo(S, n) : \A i, j \in 1..Len(s) : i # j => s[i] # s[j]}

\* the empty sequence and the sequences of one element of S
AtMostOne(S) == {<<>>} \cup {<<x>> : x \in S}

\* the sequences of at most two elements of S
AtMostTwo(S) == AtMostOne(S) \cup {<<x, y>> : x, y \in S}

Range(s) == {s[i] : i \in 1..Len(s)}

(***************************************************************************)
(* resolve_jobs (core.py 17-33)                                            *)
(***************************************************************************)
\* the result of a call: the returned queue, or the exception it raised;
\* seen is the set of names the call (and its nested calls) looked up in
\* config.jobs (line 21)
Returned(queue, seen) == [err |-> "none", queue |-> queue, seen |-> seen]
Raised(err, seen) == [err |-> err, queue |-> <<>>, seen |-> seen]

\* AppendNewDeps gone wrong: the new dependencies are put in front of the queue
RECURSIVE AppendNewDeps_in_front(_, _)
AppendNewDeps_in_front(queue, deps) ==
    IF deps = <<>> THEN queue
    ELSE AppendNewDeps_in_front(IF Head(deps) \in Range(queue) THEN queue
                                ELSE <<Head(deps)>> \o queue,
                                Tail(deps))

\* AppendNewDeps gone wrong: no membership test, every dependency is appended
AppendNewDeps_untested(queue, deps) == queue \o deps

\* lines 27-29: for dep in deps: if dep not in queue: queue.append(dep)
RECURSIVE AppendNewDeps(_, _)
AppendNewDeps(queue, deps) ==
    IF deps = <<>> THEN queue
    ELSE AppendNewDeps(IF Head(deps) \in Range(queue) THEN queue
                       ELSE Append(queue, Head(deps)),
                       Tail(deps))

RECURSIVE resolve_jobs(_, _, _)
RECURSIVE ResolveLoop(_, _, _, _, _, _)

\* lines 20-33: the loop over names from index i on, with the queue so far
ResolveLoop(names, i, queue, seen, cfg, depth) ==
    IF i > Len(names) THEN Returned(queue, seen)
    ELSE LET name == names[i] IN
         IF name \notin DOMAIN cfg.jobs
         THEN Raised("UnknownJob", seen \cup {name})
         ELSE LET job == cfg.jobs[name]
                  seen1 == seen \cup {name}
              IN  IF job.requires # <<>>
                  THEN LET deps == resolve_jobs(job.requires, cfg, depth + 1) IN
                       IF deps.err # "none"
                       THEN Raised(deps.err, seen1 \cup deps.seen)
                       ELSE ResolveLoop(names, i + 1,
                                Append(AppendNewDeps(queue, deps.queue), name),
                                seen1 \cup deps.seen, cfg, depth)
                  ELSE ResolveLoop(names, i + 1, Append(queue, name),
                                   seen1, cfg, depth)

\* a call at nesting depth `depth`; the interpreter refuses a call deeper
\* than its recursion limit
resolve_jobs(names, cfg, depth) ==
    IF depth > RecursionLimit THEN Raised("RecursionError", {})
    ELSE ResolveLoop(names, 1, <<>>, {}, cfg, depth)

(***************************************************************************)
(* Configurations and initial states                                       *)
(***************************************************************************)
Job(requires, once, nsteps) ==
    [requires |-> requires, once |-> once, nsteps |-> nsteps]

JobsOver(defined, requires, onces, stepcounts) ==
    [defined -> {Job(r, o, n) : r \in requires, o \in onces, n \in stepcounts}]

InitLocals ==
    /\ pc = "start"
    /\ error = "none"
    /\ jobs = <<>>
    /\ run_contexts = <<>>
    /\ prepare_calls = <<>>
    /\ prepare_job_calls = <<>>
    /\ active_jobs = <<>>
    /\ finished_jobs = <<>>
    /\ ci = 0
    /\ ji = 0
    /\ si = 0
    /\ events = <<>>
    /\ printed = <<>>
    /\ results = <<>>

\* run driver: two defined jobs that require at most one name each, one name
\* no job has, and at most two requested names (so resolved lists of up to
\* three jobs, with and without a job listed twice)
Init ==
    /\ \E js \in JobsOver({"a", "b"}, AtMostOne(JobNames), BOOLEAN, 1..MaxSteps),
          d \in AtMostOne({"a", "b"}) :
            config = [jobs |-> js, default |-> d]
    /\ job_names \in AtMostTwo(JobNames)
    /\ job_names # <<>> => config.default = <<>>
    /\ \E n \in 0..MaxContexts : contexts = [i \in 1..n |-> i]
    /\ InitLocals

\* resolver alone: any subset of the names defined, longer requires lists
\* (that name no job twice)
InitResolve ==
    /\ \E defined \in SUBSET JobNames :
         \E js \in JobsOver(defined, DistinctSeqsUpTo(JobNames, MaxRequires),
                             {FALSE}, {1}) :
            config = [jobs |-> js, default |-> <<>>]
    /\ job_names \in SeqsUpTo(JobNames, MaxNames)
    /\ contexts = <<>>
    /\ InitLocals

(***************************************************************************)
(* A direct call of resolve_jobs(job_names, config)                        *)
(***************************************************************************)
CallResolveJobs ==
    /\ pc = "start"
    /\ \E r \in {resolve_jobs(job_names, config, 1)} :
         /\ jobs' = r.queue
         /\ error' = r.err
    /\ pc' = "resolved"
    /\ UNCHANGED <<config, job_names, contexts, run_contexts, prepare_calls,
                   prepare_job_calls, active_jobs, finished_jobs, ci, ji, si,
                   events, printed, results>>

NextResolve == CallResolveJobs

SpecResolve == InitResolve /\ [][NextResolve]_vars

(***************************************************************************)
(* run (core.py 73-106), up to the call of run_jobs                        *)
(***************************************************************************)
\* AfterResolve gone wrong: the exception of resolve_jobs is swallowed
AfterResolve_swallowed(err) == "run_jobs"

\* line 90: an exception of resolve_jobs leaves run; otherwise run goes on
AfterResolve(err) == IF err = "none" THEN "run_jobs" ELSE "raised"

\* NothingToRun gone wrong: the default jobs are not looked at
NothingToRun_no_default(names, default) == names = <<>>

\* lines 83-88: no job names were given and the config has no default
NothingToRun(names, default) == names = <<>> /\ default = <<>>

\* lines 77-90: default job names, then resolution
RunResolve ==
    /\ pc = "start"
    /\ IF NothingToRun(job_names, config.default)
       THEN \* lines 86-88: "no jobs to run", return []
            /\ pc' = "done"
            /\ UNCHANGED <<job_names, jobs, error>>
       ELSE LET names == IF job_names = <<>> THEN config.default
                         ELSE job_names
            IN  \E r \in {resolve_jobs(names, config, 1)} :
                  /\ job_names' = names
                  /\ jobs' = r.queue
                  /\ error' = r.err
                  /\ pc' = AfterResolve(r.err)
    /\ UNCHANGED <<config, contexts, run_contexts, prepare_calls,
                   prepare_job_calls, active_jobs, finished_jobs, ci, ji, si,
                   events, printed, results>>

(***************************************************************************)
(* run_jobs (core.py 50-70)                                                *)
(***************************************************************************)
\* line 53: all(job.once for job in jobs)
AllOnce(js) == \A i \in 1..Len(js) : config.jobs[js[i]].once

\* FirstOnly gone wrong: the contexts are not trimmed
FirstOnly_untrimmed(cs) == cs

\* line 55: contexts[0:1]
FirstOnly(cs) == IF cs = <<>> THEN <<>> ELSE <<cs[1]>>

\* CallPrepareContexts gone wrong: the call is left out
CallPrepareContexts_skipped(calls, cs) == calls

\* line 56: await prepare_contexts(contexts, config)
CallPrepareContexts(calls, cs) == Append(calls, cs)

\* lines 53-59: trim the contexts, prepare them, copy the job list
RunJobsBegin ==
    /\ pc = "run_jobs"
    /\ LET cs == IF AllOnce(jobs) THEN FirstOnly(contexts) ELSE contexts IN
         /\ run_contexts' = cs
         /\ prepare_calls' = CallPrepareContexts(prepare_calls, cs)
    /\ active_jobs' = jobs
    /\ finished_jobs' = <<>>
    /\ ci' = 1
    /\ pc' = "context"
    /\ UNCHANGED <<config, job_names, contexts, error, jobs,
                   prepare_job_calls, ji, si, events, printed, results>>

\* line 60: the next context, or the end of run_jobs and of run (line 106)
NextContext ==
    /\ pc = "context"
    /\ IF ci <= Len(run_contexts)
       THEN /\ ji' = 1
            /\ pc' = "job"
       ELSE /\ pc' = "done"
            /\ UNCHANGED ji
    /\ UNCHANGED <<config, job_names, contexts, error, jobs, run_contexts,
                   prepare_calls, prepare_job_calls, active_jobs,
                   finished_jobs, ci, si, events, printed, results>>

(***************************************************************************)
(* run_jobs_on_context (core.py 36-47), called on active_jobs              *)
(***************************************************************************)
\* the steps prepare_job returns for a job: one per command of the job
prepare_job(job) == config.jobs[job].nsteps

Start(job, context, step, pos) ==
    [type |-> "Start", job |-> job, context |-> context, step |-> step,
     pos |-> pos, success |-> TRUE]

Result(job, context, step, pos, success) ==
    [type |-> "Result", job |-> job, context |-> context, step |-> step,
     pos |-> pos, success |-> success]

\* lines 39-41: the next job of the list and its steps, or the end of the pass
NextJob ==
    /\ pc = "job"
    /\ IF ji <= Len(active_jobs)
       THEN /\ prepare_job_calls' =
                  Append(prepare_job_calls, <<active_jobs[ji], run_contexts[ci]>>)
            /\ si' = 1
            /\ pc' = "step"
       ELSE /\ pc' = "prune"
            /\ UNCHANGED <<prepare_job_calls, si>>
    /\ UNCHANGED <<config, job_names, contexts, error, jobs, run_contexts,
                   prepare_calls, active_jobs, finished_jobs, ci, ji, events, printed,
                   results>>

\* RecordFinished gone wrong: every started job is recorded, once or not
RecordFinished_all(finished, job) == Append(finished, job)

\* RecordFinished gone wrong: nothing is recorded
RecordFinished_nothing(finished, job) == finished

\* line 64: what run_jobs records when a Start event of a job arrives
RecordFinished(finished, job) ==
    IF config.jobs[job].once THEN Append(finished, job) ELSE finished

\* line 94: print(event)
Report(shown, event) == Append(shown, event)

\* CollectResult gone wrong: only the Results of successful steps are kept
CollectResult_successes(list, event) ==
    IF event.type = "Result" /\ event.success THEN Append(list, event) ELSE list

\* lines 96-103: a Result is appended to results, whether it succeeded or not
CollectResult(list, event) ==
    IF event.type = "Result" THEN Append(list, event) ELSE list

\* lines 42-43, 63-65 and 93-94: the next step is started and its Start event
\* goes through run_jobs to run's runner; after the last step, the next job
EmitStart ==
    /\ pc = "step"
    /\ LET job == active_jobs[ji] IN
       IF si <= prepare_job(job)
       THEN LET ev == Start(job, run_contexts[ci], si, ji) IN
            /\ events' = Append(events, ev)
            /\ finished_jobs' = RecordFinished(finished_jobs, job)
            /\ printed' = Report(printed, ev)
            /\ results' = CollectResult(results, ev)
            /\ pc' = "await"
            /\ UNCHANGED ji
       ELSE /\ ji' = ji + 1
            /\ pc' = "job"
            /\ UNCHANGED <<events, printed, results, finished_jobs>>
    /\ UNCHANGED <<config, job_names, contexts, error, jobs, run_contexts,
                   prepare_calls, prepare_job_calls, active_jobs, ci, si>>

\* AfterResult gone wrong: after a failure the generator stays suspended and
\* never returns
AfterResult_suspended(success) == IF success THEN "step" ELSE "suspended"

\* AfterResult gone wrong: a failure does not end the pass
AfterResult_no_return(success) == "step"

\* NextStep gone wrong: the same step again
NextStep_same(step) == step

\* line 42: for step in steps
NextStep(step) == step + 1

\* lines 46-47: after a Result, the next step, or the end of the pass
AfterResult(success) == IF success THEN "step" ELSE "prune"

\* lines 44-47, 65 and 96-103: the awaited step completes, its Result is
\* yielded and appended to results
StepCompletes ==
    /\ pc = "await"
    /\ \E success \in BOOLEAN :
         LET ev == Result(active_jobs[ji], run_contexts[ci], si, ji, success) IN
           /\ events' = Append(events, ev)
           /\ printed' = Report(printed, ev)
           /\ results' = CollectResult(results, ev)
           /\ pc' = AfterResult(success)
           /\ si' = NextStep(si)
    /\ UNCHANGED <<config, job_names, contexts, error, jobs, run_contexts,
                   prepare_calls, prepare_job_calls, active_jobs,
                   finished_jobs, ci, ji>>

\* list.remove(x): the list without the first item equal to x
RECURSIVE Remove(_, _)
Remove(list, x) ==
    IF list = <<>> THEN <<>>
    ELSE IF Head(list) = x THEN Tail(list)
    ELSE <<Head(list)>> \o Remove(Tail(list), x)

\* lines 68-69: for job in finished_jobs: active_jobs.remove(job);
\* list.remove raises ValueError when the item is not in the list
RECURSIVE RemoveAll(_, _)
RemoveAll(active, finished) ==
    IF finished = <<>> THEN [err |-> "none", list |-> active]
    ELSE IF Head(finished) \notin Range(active)
         THEN [err |-> "ValueError", list |-> active]
         ELSE RemoveAll(Remove(active, Head(finished)), Tail(finished))

\* CallersJobs gone wrong: active_jobs is the caller's list itself, not a copy
CallersJobs_aliased(list, active) == active

\* line 58: active_jobs is a copy (list(jobs)), so the caller's list is what
\* it was whatever happens to active_jobs
CallersJobs(list, active) == list

\* lines 67-70: after the pass, once jobs that started leave active_jobs
Prune ==
    /\ pc = "prune"
    /\ LET r == RemoveAll(active_jobs, finished_jobs) IN
         /\ active_jobs' = r.list
         /\ jobs' = CallersJobs(jobs, r.list)
         /\ error' = r.err
         /\ IF r.err = "none"
            THEN /\ finished_jobs' = <<>>
                 /\ ci' = ci + 1
                 /\ pc' = "context"
            ELSE /\ pc' = "raised"
                 /\ UNCHANGED <<finished_jobs, ci>>
    /\ UNCHANGED <<config, job_names, contexts, run_contexts, prepare_calls,
                   prepare_job_calls, ji, si, events, printed, results>>

Next ==
    \/ RunResolve
    \/ RunJobsBegin
    \/ NextContext
    \/ NextJob
    \/ EmitStart
    \/ StepCompletes
    \/ Prune

Spec == Init /\ [][Next]_vars

\* the run under its scheduler: asyncio.run drives the runner until it ends,
\* the runner pulls every event, and every awaited step completes
FairSpec == Init /\ [][Next]_vars /\ WF_vars(Next)

(***************************************************************************)
(* Properties of resolve_jobs, checked under SpecResolve                   *)
(***************************************************************************)
NoDuplicates(list) ==
    \A i, j \in 1..Len(list) : i # j => list[i] # list[j]

\* the names required by the defined jobs among `names`
RequiredBy(names) ==
    UNION {Range(config.jobs[n].requires) : n \in names \cap DOMAIN config.jobs}

RECURSIVE RequiresClosure(_, _)
RequiresClosure(names, k) ==
    IF k = 0 THEN names
    ELSE RequiresClosure(names \cup RequiredBy(names), k - 1)

\* the names a job requires, directly or transitively
TransitiveRequires(name) ==
    RequiresClosure(RequiredBy({name}), Cardinality(JobNames))

ResolveReturned == pc = "resolved" /\ error = "none"

\* C1: the list resolve_jobs returns contains no job more than once.
C1_NoJobTwice == ResolveReturned => NoDuplicates(jobs)

\* C2: in the list resolve_jobs returns, every job that a listed job requires,
\* directly or transitively, is in the list at a strictly earlier index than
\* that job (a call on a cyclic graph does not return).
C2_DependenciesFirst ==
    ResolveReturned =>
        \A i \in 1..Len(jobs) :
            \A dep \in TransitiveRequires(jobs[i]) :
                \E k \in 1..(i - 1) : jobs[k] = dep

\* a returned list with a job whose dependency is only transitive, and with a
\* dependency shared by two requested jobs
C2_Witness ==
    /\ ResolveReturned
    /\ \E i \in 1..Len(jobs) :
         TransitiveRequires(jobs[i]) \ RequiredBy({jobs[i]}) # {}
    /\ Len(job_names) = 2

\* a requested job that transitively requires itself
RequestedCycle ==
    \E i \in 1..Len(job_names) : job_names[i] \in TransitiveRequires(job_names[i])

\* C8: when a requested job transitively requires itself, resolve_jobs ends
\* with a dedicated cyclic-dependency error instead of recursing without bound
\* (a call that ends with an unknown-job error met that name first).
C8_CycleDetected ==
    (pc = "resolved" /\ RequestedCycle /\ error # "UnknownJob")
        => error = "CyclicDependencyError"

(***************************************************************************)
(* Properties of the run, checked under Spec                               *)
(***************************************************************************)
IsStart(e) == e.type = "Start"
IsResult(e) == e.type = "Result"
IsFailure(e) == e.type = "Result" /\ ~e.success

Once(job) == config.jobs[job].once

\* the executor is inside the pass of context c
InPass(c) == pc \in {"job", "step", "await"} /\ run_contexts[ci] = c

\* C3: within one pass, once a Result with success=false has been emitted no
\* further event is emitted in that pass, and the executor has left the pass.
C3_FailureEndsPass ==
    \A i \in 1..Len(events) :
        IsFailure(events[i]) =>
            /\ \A k \in (i + 1)..Len(events) :
                   events[k].context # events[i].context
            /\ ~InPass(events[i].context)

\* a failing Result that left a later step of its job and a later job of the
\* list unstarted, while the run went on to emit events of the next context
C3_Witness ==
    \E i \in 1..Len(events) :
        /\ IsFailure(events[i])
        /\ events[i].step < prepare_job(events[i].job)
        /\ events[i].context = 1 /\ events[i].pos = 1 /\ Len(jobs) >= 2
        /\ i < Len(events)

\* the number of Start events of a job
Starts(job) ==
    Cardinality({i \in 1..Len(events) : IsStart(events[i]) /\ events[i].job = job})

\* the number of times a job is in a list
Occurrences(list, job) == Cardinality({i \in 1..Len(list) : list[i] = job})

C5_OnceJobOneContext ==
    \A i \in 1..Len(events) :
        (IsStart(events[i]) /\ Once(events[i].job)) =>
            \A k \in (i + 1)..Len(events) :
                events[k].job = events[i].job
                    => events[k].context = events[i].context

\* run_jobs has been entered (line 53 onwards)
RunJobsEntered == ci >= 1

\* C6: if every job in the list given to run_jobs has once=true,
\* prepare_contexts receives at most the first context and every event of the
\* run carries that first context.
C6_AllOnceFirstContextOnly ==
    (RunJobsEntered /\ \A i \in 1..Len(jobs) : Once(jobs[i])) =>
        /\ \A c \in 1..Len(prepare_calls) :
              /\ Len(prepare_calls[c]) <= 1
              /\ \A k \in 1..Len(prepare_calls[c]) :
                    prepare_calls[c][k] = contexts[1]
        /\ \A i \in 1..Len(events) : events[i].context = contexts[1]

\* a finished run of once jobs only, with events, where two contexts were
\* supplied
C6_Witness ==
    /\ pc = "done"
    /\ jobs # <<>>
    /\ \A i \in 1..Len(jobs) : Once(jobs[i])
    /\ Len(contexts) >= 2
    /\ events # <<>>

\* the names resolution has looked up (requested names and names in the
\* requires list of jobs it reached) before it ended
LookedUp == resolve_jobs(job_names, config, 1).seen

StepBefore(e, f) ==
    \/ e.context < f.context
    \/ e.context = f.context /\ e.pos < f.pos
    \/ e.context = f.context /\ e.pos = f.pos /\ e.step < f.step

\* C9: the events strictly alternate: every Start is immediately followed by
\* the Result of that same step, no Start is emitted before the Result of the
\* previous step, and Starts follow context order, then the order of the
\* active list, then step order.
C9_StartThenResultInOrder ==
    /\ \A i \in 1..Len(events) :
          IF i % 2 = 1
          THEN /\ IsStart(events[i])
               /\ i > 2 => StepBefore(events[i - 2], events[i])
          ELSE /\ IsResult(events[i])
               /\ events[i].job = events[i - 1].job
               /\ events[i].context = events[i - 1].context
               /\ events[i].step = events[i - 1].step
               /\ events[i].pos = events[i - 1].pos
    /\ (Len(events) % 2 = 1) <=> (pc = "await")
    /\ \A i \in 1..Len(events) :
          (pc \in {"job", "step", "await", "prune"}
             /\ events[i].context = run_contexts[ci])
              => /\ events[i].pos \in 1..Len(active_jobs)
                 /\ events[i].job = active_jobs[events[i].pos]
                 /\ events[i].step \in 1..prepare_job(events[i].job)

\* a finished run with events of a second step, a second job and a second
\* context
C9_Witness ==
    /\ pc = "done"
    /\ \E i \in 1..Len(events) : events[i].step = 2
    /\ \E i \in 1..Len(events) : events[i].pos = 2
    /\ \E i \in 1..Len(events) : events[i].context = 2

\* line 53-55: the contexts run_jobs keeps
ReducedContexts ==
    IF \A i \in 1..Len(jobs) : Once(jobs[i])
    THEN SubSeq(contexts, 1, IF Len(contexts) = 0 THEN 0 ELSE 1)
    ELSE contexts

\* C10: in every run of run_jobs, prepare_contexts is invoked exactly once, on
\* the (possibly reduced) context sequence, before the first Start event.
C10_ContextsPreparedOnceFirst ==
    /\ Len(prepare_calls) <= 1
    /\ RunJobsEntered => prepare_calls = <<ReducedContexts>>
    /\ events # <<>> => Len(prepare_calls) = 1
    /\ prepare_job_calls # <<>> => Len(prepare_calls) = 1

\* a finished run over two contexts with events
C10_Witness ==
    /\ pc = "done"
    /\ Len(run_contexts) = 2
    /\ events # <<>>
    /\ prepare_calls = <<contexts>>

\* a call of prepare_job for a context has been made: its pass has begun
PassBegun(c) ==
    \E k \in 1..Len(prepare_job_calls) : prepare_job_calls[k][2] = c

\* C11: a Result with success=false ends only the pass of its context: no
\* error is raised at the end of that pass, and the orchestrator goes on to
\* run a pass for every later context over the jobs still active.
C11_FailureEndsOnlyItsPass ==
    \A i \in 1..Len(events) :
        IsFailure(events[i]) =>
            /\ ~(pc = "raised" /\ run_contexts[ci] = events[i].context)
            /\ (pc = "done" /\ active_jobs # <<>>) =>
                   \A c \in Range(run_contexts) :
                       c > events[i].context => PassBegun(c)

RECURSIVE ResultsOf(_)
ResultsOf(list) ==
    IF list = <<>> THEN <<>>
    ELSE IF IsResult(Head(list)) THEN <<Head(list)>> \o ResultsOf(Tail(list))
    ELSE ResultsOf(Tail(list))

\* C13: the results list of run holds exactly the Result events emitted by
\* run_jobs, each once and in emission order, successful and failing alike,
\* and every Start and Result event is given to print in that same order.
C13_ResultsAreTheResultEvents ==
    /\ results = ResultsOf(events)
    /\ printed = events

\* a finished run whose results hold a failing Result after a successful one
C13_Witness ==
    /\ pc = "done"
    /\ \E i, k \in 1..Len(results) :
         i < k /\ results[i].success /\ ~results[k].success
    /\ Len(events) = 2 * Len(results)

\* the items of a list that are in a set, in order
RECURSIVE Restrict(_, _)
Restrict(list, S) ==
    IF list = <<>> THEN <<>>
    ELSE IF Head(list) \in S THEN <<Head(list)>> \o Restrict(Tail(list), S)
    ELSE Restrict(Tail(list), S)

\* the requested jobs that require a name directly
Dependents(dep) ==
    {n \in Range(job_names) \cap DOMAIN config.jobs :
        dep \in Range(config.jobs[n].requires)}

\* a dependency that several requested jobs require and that is not requested
SharedDependencies ==
    {dep \in JobNames \ Range(job_names) : Cardinality(Dependents(dep)) >= 2}

\* the requested names are distinct and none is required by a requested job
IndependentRequests ==
    /\ NoDuplicates(job_names)
    /\ \A n \in Range(job_names) : Range(job_names) \cap TransitiveRequires(n) = {}

C15_NothingToRun ==
    /\ (pc # "start" /\ job_names = <<>>) =>
          /\ pc = "done"
          /\ error = "none"
          /\ results = <<>>
          /\ jobs = <<>>
          /\ ~RunJobsEntered
          /\ prepare_calls = <<>>
          /\ prepare_job_calls = <<>>
          /\ events = <<>>
    /\ (pc # "start" /\ config.default # <<>>) =>
          /\ job_names = config.default
          /\ LET r == resolve_jobs(config.default, config, 1) IN
               /\ error \in {r.err, "ValueError"}
               /\ jobs = r.queue
               /\ r.err = "none" => pc # "raised" \/ error = "ValueError"
          /\ pc = "done" => (RunJobsEntered /\ prepare_calls # <<>>)

\* run returned an empty list at once although contexts were there
C15_Witness ==
    /\ pc = "done"
    /\ job_names = <<>>
    /\ contexts # <<>>

\* the once jobs with a Start event in the pass of a context
StartedOnceJobs(c) ==
    {events[i].job : i \in {k \in 1..Len(events) :
        IsStart(events[k]) /\ events[k].context = c /\ Once(events[k].job)}}

\* C16: after every pass, however it ended and whatever the number of steps
\* per job, the pruning completes without error: every once=true job whose
\* Start fired in that pass is removed from the active-jobs list, the finished
\* list is emptied, and the orchestrator moves on to the next context.
C16_PruningCompletes ==
    /\ pc = "raised" => error \in {"UnknownJob", "RecursionError"}
    /\ (pc = "context" /\ ci > 1) =>
          /\ finished_jobs = <<>>
          /\ \A job \in StartedOnceJobs(run_contexts[ci - 1]) :
                Occurrences(active_jobs, job) < Occurrences(jobs, job)

\* C17: prepare_job is invoked at most once for each (job, context) pair, and
\* before any Start event of that job in that context.
C17_PrepareJobOncePerPair ==
    /\ NoDuplicates(prepare_job_calls)
    /\ \A i \in 1..Len(events) :
          \E k \in 1..Len(prepare_job_calls) :
              prepare_job_calls[k] = <<events[i].job, events[i].context>>

\* C18: run_jobs changes only its own active-jobs and finished lists: no step
\* taken after run_jobs was entered changes the job list the caller passed
\* in, the Config or the Contexts.
C18_CallerValuesUnchanged ==
    [][RunJobsEntered =>
          /\ jobs' = jobs
          /\ config' = config
          /\ contexts' = contexts]_vars

\* a pruning has taken a job out of active_jobs and the run has finished
C18_Witness ==
    /\ pc = "done"
    /\ jobs # <<>>
    /\ Len(active_jobs) < Len(jobs)
    /\ Len(contexts) >= 2

\* list `sub` is `list` with some of its items left out
RECURSIVE IsSubsequence(_, _)
IsSubsequence(sub, list) ==
    IF sub = <<>> THEN TRUE
    ELSE IF list = <<>> THEN FALSE
    ELSE IF Head(sub) = Head(list) THEN IsSubsequence(Tail(sub), Tail(list))
    ELSE IsSubsequence(sub, Tail(list))

\* C19: a job is removed from the active-jobs list only if it has once=true
\* and a Start event for it has fired: the active list holds, in resolved
\* order, every non-once job and every once=true job that has not yet started.
C19_OnlyStartedOnceJobsRemoved ==
    RunJobsEntered =>
        /\ IsSubsequence(active_jobs, jobs)
        /\ \A job \in Range(jobs) :
              Occurrences(active_jobs, job) < Occurrences(jobs, job)
                  => (Once(job) /\ Starts(job) >= 1)

\* a once job that a failure of the job before it kept from starting in the
\* first context is started in the second
C19_Witness ==
    \E i, k \in 1..Len(events) :
        /\ IsFailure(events[i]) /\ events[i].context = 1 /\ events[i].pos = 1
        /\ IsStart(events[k]) /\ events[k].context = 2
        /\ Once(events[k].job)
        /\ events[k].job # events[i].job
        /\ \A n \in 1..Len(events) :
              events[n].job = events[k].job => events[n].context = 2

(***************************************************************************)
(* Termination, checked under FairSpec                                     *)
(***************************************************************************)
\* run has returned or raised
Terminated == pc \in {"done", "raised"}

\* C20: if every awaited step completes and the consumer keeps pulling
\* events, the run terminates: resolution returns (or raises), every context
\* pass ends, and the event sequence is finite.
C20_RunTerminates == <>Terminated

\* a run over an acyclic config that returned after passes over two contexts,
\* each with two jobs of two steps
C20_Witness ==
    /\ pc = "done"
    /\ Len(run_contexts) = 2
    /\ Len(events) >= 16

====
